---- MODULE Spec2Model ----
(***************************************************************************)
(* Model of extruder-spring/test-extruder-spring.py: a generator of a      *)
(* g-code calibration pattern.  The script is a straight-line program over *)
(* a cursor object (ToolPos) and standard output.  It is modelled as a     *)
(* state machine whose program counter is the line number of the next      *)
(* statement of main(), with semicircle() stepping through its own frame.  *)
(*                                                                         *)
(* Numbers.  The script computes in binary floating point and prints with  *)
(* "%f".  A number is modelled as an integer count of quanta (2^-FracBits) *)
(* carrying at most PrecBits significant bits: every arithmetic result is  *)
(* rounded to the nearest such number, ties to even (Fl).  "%f" keeps a    *)
(* fixed number of places: Fmt rounds to a multiple of FmtGrid quanta.     *)
(***************************************************************************)
EXTENDS Integers, Sequences, FiniteSets

\* ------------------------------------------------------------------ bounds

\* Fractional bits of the quantum: 1.0 is Unit quanta.
FracBits == 4
\* Significant bits a number carries (53 for the script's doubles).
PrecBits == 8
\* Quanta between two values "%f" can print (10^-6 for the script).
FmtGrid == 4
\* Largest TESTTRY, len(TESTSPEEDS) and SEMICIRCLEPOINTS explored.
MaxTry == 1
MaxLanes == 2
MaxPoints == 2
\* Number of primitive calls the primitive harness makes in one run.
MaxCalls == 1

Unit == 2^FracBits
Mant == 2^PrecBits

\* ------------------------------------------------------- float arithmetic

Abs(n) == IF n < 0 THEN -n ELSE n

\* a / b (b > 0) rounded to the nearest integer, ties to the even one.
RoundDiv(a, b) ==
    LET q == a \div b
        r == a % b
    IN  IF 2 * r < b THEN q
        ELSE IF 2 * r > b THEN q + 1
        ELSE IF q % 2 = 0 THEN q ELSE q + 1

RECURSIVE UlpFrom(_, _)
UlpFrom(a, u) == IF a < Mant * u THEN u ELSE UlpFrom(a, 2 * u)

\* Spacing of the representable numbers around n.
Ulp(n) == UlpFrom(Abs(n), 1)

\* Rounding of an exact result to the nearest representable number.
Fl(n) == RoundDiv(n, Ulp(n)) * Ulp(n)

FAdd(a, b) == Fl(a + b)
FSub(a, b) == Fl(a - b)
\* int * float, as in TESTLENGTH * (TESTTRY*2 + 1) or 2*LANEWIDTH.
FScale(k, a) == Fl(k * a)
\* float / 2.
FHalf(a) == Fl(RoundDiv(a, 2))

RECURSIVE SqrtFloor(_, _, _)
SqrtFloor(n, lo, hi) ==
    IF lo >= hi THEN lo
    ELSE LET mid == (lo + hi + 1) \div 2
         IN  IF mid * mid <= n THEN SqrtFloor(n, mid, hi)
             ELSE SqrtFloor(n, lo, mid - 1)

\* math.sqrt of a sum of squares given in squared quanta: nearest quantum.
FSqrt(n) ==
    LET s == SqrtFloor(n, 0, 46340)
    IN  Fl(IF n - s * s > s THEN s + 1 ELSE s)

\* "%f" % v
Fmt(v) == RoundDiv(v, FmtGrid) * FmtGrid

\* ------------------------------------------------------------ trigonometry

\* Denominator of the tabulated sines and cosines, and of EXTRUSIONMULT.
TrigDen == 1024

\* round(1024 * sin(k*pi/m)) for 0 < k < m <= 6.
SinTab(k, m) ==
    CASE m = 2 -> 1024
      [] m = 3 -> 887
      [] m = 4 -> IF k = 2 THEN 1024 ELSE 724
      [] m = 5 -> IF k \in {1, 4} THEN 602 ELSE 974
      [] m = 6 -> IF k \in {1, 5} THEN 512 ELSE IF k = 3 THEN 1024 ELSE 887
      [] OTHER -> 0

\* round(1024 * cos(k*pi/m)) = sin of the complementary angle, signed.
CosTab(k, m) ==
    CASE m = 2 -> 0
      [] m = 3 -> IF k = 1 THEN 512 ELSE -512
      [] m = 4 -> IF k = 1 THEN 724 ELSE IF k = 2 THEN 0 ELSE -724
      [] m = 5 -> CASE k = 1 -> 828 [] k = 2 -> 316 [] k = 3 -> -316 [] OTHER -> -828
      [] m = 6 -> CASE k = 1 -> 887 [] k = 2 -> 512 [] k = 3 -> 0
                    [] k = 4 -> -512 [] OTHER -> -887
      [] OTHER -> 1024

\* math.sin(pos) * v and math.cos(pos) * v with pos = (pi/m) * k.
SinTimes(k, m, v) == Fl(RoundDiv(SinTab(k, m) * v, TrigDen))
CosTimes(k, m, v) == Fl(RoundDiv(CosTab(k, m) * v, TrigDen))

\* ----------------------------------------------------------- configuration

\* Module-level settings that main() never changes.
RULERSPEED == 10 * Unit
REPOSITIONSPEED == 40 * Unit
REPOSITIONZSPEED == 10 * Unit
REPOSITIONZ == Unit
EXTRAZ == 0
\* 0.3, to the nearest quantum.
EXTRUDEZ == RoundDiv(3 * Unit, 10)
\* (EXTRUDEZ * EXTRUDEWIDTH) / (pi * (FILAMENTWIDTH/2)**2) = 0.04989...
DefaultMult == RoundDiv(4989 * TrigDen, 100000)

\* The settings the operator edits before a run.  Lengths and speeds are in
\* quanta, EXTRUSIONMULT in 1/TrigDen.
LaneWidths == {5 * Unit, 18, 37}
TestLengths == {20 * Unit, 101}
SpeedSet == {20 * Unit, 40 * Unit}
Mults == {0, DefaultMult}
\* The script's bed, a bed smaller than any pattern, and a non-positive one.
Beds == {<<200 * Unit, 250 * Unit>>, <<10 * Unit, 10 * Unit>>, <<0, -Unit>>}

SpeedLists == UNION {[1..n -> SpeedSet] : n \in 0..MaxLanes}

Config(lw, tl, tt, sp, pts, mult, bed) ==
    [LANEWIDTH |-> lw, TESTLENGTH |-> tl, TESTTRY |-> tt, TESTSPEEDS |-> sp,
     SEMICIRCLEPOINTS |-> pts, EXTRUSIONMULT |-> mult,
     BEDX |-> bed[1], BEDY |-> bed[2]]

\* Bed 200 x 250 with a pattern of 140 x 73.
CenteringConfig ==
    Config(RoundDiv(73 * Unit, 4), 67 * Unit, 0, <<>>, 1, DefaultMult,
           <<200 * Unit, 250 * Unit>>)

Configs ==
    {Config(lw, tl, tt, sp, pts, mult, bed) :
        lw \in LaneWidths, tl \in TestLengths, tt \in 0..MaxTry,
        sp \in SpeedLists, pts \in 0..MaxPoints, mult \in Mults, bed \in Beds}
    \cup {CenteringConfig}

\* ------------------------------------------------------------------ state

VARIABLES
    cfg,      \* the module-level settings of this run
    coord,    \* the ToolPos cursor
    out,      \* the lines written to standard output, in order
    pc,       \* line of main() to execute next (0: returned)
    i,        \* main()'s loop variable i
    iti,      \* next value of the range() iterator feeding i
    itj,      \* next value of the range() iterator feeding j
    frame,    \* locals of the running semicircle() call
    call      \* the primitive call the harness made last

vars == <<cfg, coord, out, pc, i, iti, itj, frame, call>>

\* class ToolPos
ToolPos == [baseX |-> 0, baseY |-> 0, currentX |-> 0, currentY |-> 0, currentE |-> 0]

NoFrame == [active |-> FALSE, closed |-> FALSE, startx |-> 0, starty |-> 0,
            x |-> 0, y |-> 0, ext |-> FALSE, k |-> 0]
\* op: the primitive called, x, y, e, ext: its arguments, pre: the cursor it
\* was called on, n: the number of calls made so far.
NoCall == [op |-> "none", x |-> 0, y |-> 0, e |-> 0, ext |-> FALSE, pre |-> ToolPos,
           n |-> 0]

\* One output line.  op is the line's shape; x, y, e its numeric fields as
\* printed (x alone for "G1 F", "G1 Z" and the run number of "; Start run").
Cmd(op, x, y, e) == [op |-> op, x |-> x, y |-> y, e |-> e]
Text(op) == Cmd(op, 0, 0, 0)

\* ------------------------------------------------------------- primitives

\* setspeed(speed): the line it prints.
SetspeedMulBy1(speed) == Cmd("G1 F", Fmt(speed), 0, 0)
Setspeed(speed) == Cmd("G1 F", Fmt(FScale(60, speed)), 0, 0)

\* moveabs(coord, x, y, e); hasE is "e is not None".
\* The result is the cursor afterwards and the line printed.
MoveabsDropE(c, x, y, hasE, e) ==
    [coord |-> [c EXCEPT !.currentX = x, !.currentY = y],
     cmd |-> Cmd("G1 XY", Fmt(FAdd(c.baseX, x)), Fmt(FAdd(c.baseY, y)), 0)]
MoveabsRebase(c, x, y, hasE, e) ==
    [coord |-> [c EXCEPT !.baseX = FAdd(c.baseX, x), !.currentX = x, !.currentY = y,
                         !.currentE = IF hasE THEN e ELSE @],
     cmd |-> Cmd(IF hasE THEN "G1 XYE" ELSE "G1 XY",
                 Fmt(FAdd(c.baseX, x)), Fmt(FAdd(c.baseY, y)),
                 IF hasE THEN Fmt(e) ELSE 0)]
Moveabs(c, x, y, hasE, e) ==
    IF ~hasE
    THEN [coord |-> [c EXCEPT !.currentX = x, !.currentY = y],
          cmd |-> Cmd("G1 XY", Fmt(FAdd(c.baseX, x)), Fmt(FAdd(c.baseY, y)), 0)]
    ELSE [coord |-> [c EXCEPT !.currentX = x, !.currentY = y, !.currentE = e],
          cmd |-> Cmd("G1 XYE", Fmt(FAdd(c.baseX, x)), Fmt(FAdd(c.baseY, y)), Fmt(e))]

\* math.sqrt(x*x+y*y)*EXTRUSIONMULT
FeedFor(mult, x, y) ==
    Fl(RoundDiv(FSqrt(FAdd(Fl(x * x), Fl(y * y))) * mult, TrigDen))

\* moverel(coord, x, y, ext); ext is "ext is not None".
MoverelPerSegment(c, mult, x, y, ext) ==
    Moveabs(c, FAdd(c.currentX, x), FAdd(c.currentY, y), ext,
            IF ext THEN FeedFor(mult, x, y) ELSE 0)
MoverelAlwaysFeeds(c, mult, x, y, ext) ==
    Moveabs(c, FAdd(c.currentX, x), FAdd(c.currentY, y), ext,
            IF ext THEN FAdd(FAdd(c.currentE, FeedFor(mult, x, y)), 1) ELSE 0)
Moverel(c, mult, x, y, ext) ==
    Moveabs(c, FAdd(c.currentX, x), FAdd(c.currentY, y), ext,
            IF ext THEN FAdd(c.currentE, FeedFor(mult, x, y)) ELSE 0)

\* reposition(coord, x, y): the six lines it prints; the cursor afterwards
\* is Moveabs(c, x, y, FALSE, 0).coord.
Reposition(c, x, y) ==
    << Setspeed(REPOSITIONZSPEED),
       Cmd("G1 Z", Fmt(FAdd(FAdd(EXTRUDEZ, EXTRAZ), REPOSITIONZ)), 0, 0),
       Setspeed(REPOSITIONSPEED),
       Moveabs(c, x, y, FALSE, 0).cmd,
       Setspeed(REPOSITIONZSPEED),
       Cmd("G1 Z", Fmt(FAdd(EXTRUDEZ, EXTRAZ)), 0, 0) >>

\* semicircle(): target of sample number k (1-based) of a call with locals f,
\* as a displacement from the cursor c (lines 82-85).
SampleDelta(f, pts, c, k) ==
    LET m == pts + 1
        xpos == SinTimes(k, m, f.x)
        ypos == FAdd(FHalf(CosTimes(k, m, -f.y)), FHalf(f.y))
    IN  << FSub(FAdd(f.startx, xpos), c.currentX),
           FSub(FAdd(f.starty, ypos), c.currentY) >>

\* semicircle(): displacement of the closing move (line 86).
CloseDelta(f, c) ==
    << FSub(f.startx, c.currentX), FSub(FAdd(f.starty, f.y), c.currentY) >>

\* ------------------------------------------------------------------ main()

\* Locals of main() (lines 97-99).
NumLanes(c) == Len(c.TESTSPEEDS)
TotalY(c) == FScale(NumLanes(c) * 2 + 1 + 3, c.LANEWIDTH)
TotalX(c) == FAdd(FScale(c.TESTTRY * 2 + 1, c.TESTLENGTH), FScale(4, c.LANEWIDTH))

\* Lines 100-102: the cursor main() creates.
CenteredOnSum(c) ==
    [ToolPos EXCEPT !.baseX = FHalf(FAdd(c.BEDX, TotalX(c))),
                    !.baseY = FHalf(FAdd(c.BEDY, TotalY(c)))]
Centered(c) ==
    [ToolPos EXCEPT !.baseX = FHalf(FSub(c.BEDX, TotalX(c))),
                    !.baseY = FHalf(FSub(c.BEDY, TotalY(c)))]

Rel(dx, dy, ext, next) == [kind |-> "moverel", x |-> dx, y |-> dy, ext |-> ext, next |-> next]
Semi(x, y, next) == [kind |-> "semicircle", x |-> x, y |-> y, ext |-> TRUE, next |-> next]
Speed(v, next) == [kind |-> "setspeed", x |-> v, y |-> 0, ext |-> FALSE, next |-> next]
Out(text, n, next) == [kind |-> text, x |-> n, y |-> 0, ext |-> FALSE, next |-> next]
\* for <var> in range(n): body starts at line body, the loop is left for next.
ForOneMore(var, n, body, next) ==
    [kind |-> var, x |-> n + 1, y |-> body, ext |-> FALSE, next |-> next]
For(var, n, body, next) == [kind |-> var, x |-> n, y |-> body, ext |-> FALSE, next |-> next]

\* The speed of the lane being printed (TESTSPEEDS[i], i counted from 0).
LaneSpeed(c, lane) ==
    IF lane + 1 \in DOMAIN c.TESTSPEEDS THEN c.TESTSPEEDS[lane + 1] ELSE 0

\* The statement of main() at line l.
Stmt(l) ==
    LET LW == cfg.LANEWIDTH
        TL == cfg.TESTLENGTH
    IN  CASE l = 104 -> Out("STARTG", 0, 105)
          [] l = 105 -> Out("; Prime extruder", 0, 106)
          [] l = 106 -> [kind |-> "reposition", x |-> 0, y |-> 0, ext |-> FALSE, next |-> 107]
          [] l = 107 -> Speed(RULERSPEED, 108)
          [] l = 108 -> Rel(FSub(TotalX(cfg), LW), 0, TRUE, 110)
          [] l = 110 -> Semi(LW, FScale(2, LW), 111)
          [] l = 111 -> Rel(-LW, 0, TRUE, 113)
          [] l = 113 -> Out("; Start ruler", 0, 114)
          [] l = 114 -> For("i", cfg.TESTTRY, 115, 119)
          [] l = 115 -> Rel(0, -LW, TRUE, 116)
          [] l = 116 -> Rel(-TL, 0, TRUE, 117)
          [] l = 117 -> Rel(0, LW, TRUE, 118)
          [] l = 118 -> Rel(-TL, 0, TRUE, 114)
          [] l = 119 -> Rel(0, -LW, TRUE, 120)
          [] l = 120 -> Rel(-TL, 0, TRUE, 121)
          [] l = 121 -> Rel(0, LW, TRUE, 122)
          [] l = 122 -> Rel(-LW, 0, TRUE, 124)
          [] l = 124 -> Semi(FHalf(-LW), LW, 125)
          [] l = 125 -> Rel(LW, 0, TRUE, 127)
          [] l = 127 -> For("i", NumLanes(cfg), 128, 151)
          [] l = 128 -> Out("; Start run", i, 129)
          [] l = 129 -> Speed(LaneSpeed(cfg, i), 130)
          [] l = 130 -> For("j", cfg.TESTTRY, 131, 133)
          [] l = 131 -> Rel(TL, 0, FALSE, 132)
          [] l = 132 -> Rel(TL, 0, TRUE, 130)
          [] l = 133 -> Rel(TL, 0, FALSE, 135)
          [] l = 135 -> Speed(RULERSPEED, 136)
          [] l = 136 -> Rel(LW, 0, TRUE, 137)
          [] l = 137 -> Semi(FHalf(LW), LW, 138)
          [] l = 138 -> Rel(-LW, 0, TRUE, 140)
          [] l = 140 -> Speed(LaneSpeed(cfg, i), 141)
          [] l = 141 -> For("j", cfg.TESTTRY, 142, 144)
          [] l = 142 -> Rel(-TL, 0, FALSE, 143)
          [] l = 143 -> Rel(-TL, 0, TRUE, 141)
          [] l = 144 -> Rel(-TL, 0, FALSE, 146)
          [] l = 146 -> Speed(RULERSPEED, 147)
          [] l = 147 -> Rel(-LW, 0, TRUE, 148)
          [] l = 148 -> Semi(FHalf(-LW), LW, 149)
          [] l = 149 -> Rel(LW, 0, TRUE, 127)
          [] l = 151 -> Out("; Start ruler", 0, 152)
          [] l = 152 -> For("i", cfg.TESTTRY, 153, 157)
          [] l = 153 -> Rel(0, LW, TRUE, 154)
          [] l = 154 -> Rel(TL, 0, TRUE, 155)
          [] l = 155 -> Rel(0, -LW, TRUE, 156)
          [] l = 156 -> Rel(TL, 0, TRUE, 152)
          [] l = 157 -> Rel(0, LW, TRUE, 158)
          [] l = 158 -> Rel(TL, 0, TRUE, 159)
          [] l = 159 -> Rel(0, -LW, TRUE, 160)
          [] l = 160 -> Rel(FScale(2, LW), 0, TRUE, 162)
          [] l = 162 -> Out("ENDG", 0, 0)
          [] OTHER -> [kind |-> "none", x |-> 0, y |-> 0, ext |-> FALSE, next |-> 0]

Lines == 104..162
Running == pc \in Lines /\ ~frame.active
Kind == Stmt(pc).kind

\* Lines 97-102: numlanes, totaly, totalx, coord = ToolPos(), its base.
MainSetup ==
    /\ pc = 97
    /\ coord' = Centered(cfg)
    /\ pc' = 104
    /\ UNCHANGED <<cfg, out, i, iti, itj, frame, call>>

\* output(STARTG), output("; ..."), output(ENDG)
MainOutput ==
    /\ Running
    /\ Kind \in {"STARTG", "; Prime extruder", "; Start ruler", "; Start run", "ENDG"}
    /\ out' = Append(out, Cmd(Kind, Stmt(pc).x, 0, 0))
    /\ pc' = Stmt(pc).next
    /\ UNCHANGED <<cfg, coord, i, iti, itj, frame, call>>

\* reposition(coord, 0, 0)
MainReposition ==
    /\ Running
    /\ Kind = "reposition"
    /\ out' = out \o Reposition(coord, Stmt(pc).x, Stmt(pc).y)
    /\ coord' = Moveabs(coord, Stmt(pc).x, Stmt(pc).y, FALSE, 0).coord
    /\ pc' = Stmt(pc).next
    /\ UNCHANGED <<cfg, i, iti, itj, frame, call>>

\* setspeed(...)
MainSetspeed ==
    /\ Running
    /\ Kind = "setspeed"
    /\ out' = Append(out, Setspeed(Stmt(pc).x))
    /\ pc' = Stmt(pc).next
    /\ UNCHANGED <<cfg, coord, i, iti, itj, frame, call>>

\* moverel(coord, dx, dy[, ext=1])
MainMoverel ==
    /\ Running
    /\ Kind = "moverel"
    /\ LET r == Moverel(coord, cfg.EXTRUSIONMULT, Stmt(pc).x, Stmt(pc).y, Stmt(pc).ext)
       IN  /\ coord' = r.coord
           /\ out' = Append(out, r.cmd)
    /\ pc' = Stmt(pc).next
    /\ UNCHANGED <<cfg, i, iti, itj, frame, call>>

\* for i in range(...): the iterator yields its next value or is exhausted.
MainForI ==
    /\ Running
    /\ Kind = "i"
    /\ IF iti < Stmt(pc).x
       THEN i' = iti /\ iti' = iti + 1 /\ pc' = Stmt(pc).y
       ELSE i' = i /\ iti' = 0 /\ pc' = Stmt(pc).next
    /\ UNCHANGED <<cfg, coord, out, itj, frame, call>>

\* for j in range(TESTTRY)
MainForJ ==
    /\ Running
    /\ Kind = "j"
    /\ IF itj < Stmt(pc).x
       THEN itj' = itj + 1 /\ pc' = Stmt(pc).y
       ELSE itj' = 0 /\ pc' = Stmt(pc).next
    /\ UNCHANGED <<cfg, coord, out, i, iti, frame, call>>

\* ------------------------------------------------------------ semicircle()

\* Lines 79-80: entry, startx and starty are read once.
Enter(c, x, y, ext) ==
    [active |-> TRUE, closed |-> FALSE, startx |-> c.currentX, starty |-> c.currentY,
     x |-> x, y |-> y, ext |-> ext, k |-> 0]

MainSemicircle ==
    /\ Running
    /\ Kind = "semicircle"
    /\ frame' = Enter(coord, Stmt(pc).x, Stmt(pc).y, Stmt(pc).ext)
    /\ UNCHANGED <<cfg, coord, out, pc, i, iti, itj, call>>

\* Lines 81-85: one sample of the arc.
SemiSample ==
    /\ frame.active /\ ~frame.closed
    /\ frame.k < cfg.SEMICIRCLEPOINTS
    /\ LET d == SampleDelta(frame, cfg.SEMICIRCLEPOINTS, coord, frame.k + 1)
           r == Moverel(coord, cfg.EXTRUSIONMULT, d[1], d[2], frame.ext)
       IN  /\ coord' = r.coord
           /\ out' = Append(out, r.cmd)
    /\ frame' = [frame EXCEPT !.k = @ + 1]
    /\ UNCHANGED <<cfg, pc, i, iti, itj, call>>

\* Line 86: the closing move.
SemiClose ==
    /\ frame.active /\ ~frame.closed
    /\ frame.k >= cfg.SEMICIRCLEPOINTS
    /\ LET d == CloseDelta(frame, coord)
           r == Moverel(coord, cfg.EXTRUSIONMULT, d[1], d[2], frame.ext)
       IN  /\ coord' = r.coord
           /\ out' = Append(out, r.cmd)
    /\ frame' = [frame EXCEPT !.closed = TRUE]
    /\ UNCHANGED <<cfg, pc, i, iti, itj, call>>

\* semicircle() returns to the statement after the call.
SemiReturn ==
    /\ frame.active /\ frame.closed
    /\ frame' = NoFrame
    /\ pc' = IF pc \in Lines THEN Stmt(pc).next ELSE pc
    /\ UNCHANGED <<cfg, coord, out, i, iti, itj, call>>

\* ----------------------------------------------------------- specification

Init ==
    /\ cfg \in Configs
    /\ coord = ToolPos
    /\ out = <<>>
    /\ pc = 97
    /\ i = 0 /\ iti = 0 /\ itj = 0
    /\ frame = NoFrame
    /\ call = NoCall

Next ==
    \/ MainSetup
    \/ MainOutput
    \/ MainReposition
    \/ MainSetspeed
    \/ MainMoverel
    \/ MainForI
    \/ MainForJ
    \/ MainSemicircle
    \/ SemiSample
    \/ SemiClose
    \/ SemiReturn

Spec == Init /\ [][Next]_vars

\* ------------------------------------------------------- primitive harness

\* The primitives called directly, on a cursor and with arguments drawn from
\* small sets, as a unit test of moveabs, moverel, semicircle, setspeed and
\* reposition would call them.
Positions == {0, 19, 5 * Unit}
Offsets == {0, 30 * Unit}
Feeds == {0, 7}
Deltas == {0, -18, 20 * Unit}
HalfWidths == {20 * Unit, -40}
Heights == {5 * Unit, 18}

Cursors ==
    {[baseX |-> bx, baseY |-> bx, currentX |-> x, currentY |-> y, currentE |-> e] :
        bx \in Offsets, x \in Positions, y \in Positions, e \in Feeds}

PrimConfigs ==
    {Config(5 * Unit, 20 * Unit, 0, <<>>, pts, mult, <<200 * Unit, 250 * Unit>>) :
        pts \in 0..MaxPoints, mult \in Mults}

Idle == pc = 1 /\ ~frame.active /\ call.n < MaxCalls

Called(op, x, y, e, ext) ==
    [op |-> op, x |-> x, y |-> y, e |-> e, ext |-> ext, pre |-> coord, n |-> call.n + 1]

PrimMoveabs ==
    /\ Idle
    /\ \E x \in Positions, y \in Positions, hasE \in BOOLEAN, e \in Feeds :
          LET r == Moveabs(coord, x, y, hasE, e)
          IN  /\ hasE \/ e = 0
              /\ coord' = r.coord
              /\ out' = Append(out, r.cmd)
              /\ call' = Called("moveabs", x, y, e, hasE)
    /\ UNCHANGED <<cfg, pc, i, iti, itj, frame>>

PrimMoverel ==
    /\ Idle
    /\ \E x \in Deltas, y \in Deltas, ext \in BOOLEAN :
          LET r == Moverel(coord, cfg.EXTRUSIONMULT, x, y, ext)
          IN  /\ coord' = r.coord
              /\ out' = Append(out, r.cmd)
              /\ call' = Called("moverel", x, y, 0, ext)
    /\ UNCHANGED <<cfg, pc, i, iti, itj, frame>>

PrimSemicircle ==
    /\ Idle
    /\ \E x \in HalfWidths, y \in Heights, ext \in BOOLEAN :
          /\ frame' = Enter(coord, x, y, ext)
          /\ call' = Called("semicircle", x, y, 0, ext)
    /\ UNCHANGED <<cfg, coord, out, pc, i, iti, itj>>

PrimSetspeed ==
    /\ Idle
    /\ \E v \in SpeedSet :
          /\ out' = Append(out, Setspeed(v))
          /\ call' = Called("setspeed", v, 0, 0, FALSE)
    /\ UNCHANGED <<cfg, coord, pc, i, iti, itj, frame>>

PrimReposition ==
    /\ Idle
    /\ \E x \in Positions, y \in Positions :
          /\ out' = out \o Reposition(coord, x, y)
          /\ coord' = Moveabs(coord, x, y, FALSE, 0).coord
          /\ call' = Called("reposition", x, y, 0, FALSE)
    /\ UNCHANGED <<cfg, pc, i, iti, itj, frame>>

InitPrim ==
    /\ cfg \in PrimConfigs
    /\ coord \in Cursors
    /\ out = <<>>
    /\ pc = 1
    /\ i = 0 /\ iti = 0 /\ itj = 0
    /\ frame = NoFrame
    /\ call = NoCall

NextPrim ==
    \/ PrimMoveabs
    \/ PrimMoverel
    \/ PrimSemicircle
    \/ PrimSetspeed
    \/ PrimReposition
    \/ SemiSample
    \/ SemiClose
    \/ SemiReturn

SpecPrim == InitPrim /\ [][NextPrim]_vars

\* ======================================================== properties

Last(s) == s[Len(s)]
IsMove(c) == c.op \in {"G1 XY", "G1 XYE"}
IsExtrude(c) == c.op = "G1 XYE"
Extrudes(o) == SelectSeq(o, IsExtrude)
\* Positions in o of the lines of shape op.
Where(o, op) == {k \in DOMAIN o : o[k].op = op}
Min(S) == CHOOSE a \in S : \A b \in S : a <= b
Max(S) == CHOOSE a \in S : \A b \in S : a >= b
\* The setting is rejected by the validation the specification describes.
Violating(c) ==
    \/ TotalX(c) > c.BEDX \/ TotalY(c) > c.BEDY
    \/ c.BEDX <= 0 \/ c.BEDY <= 0
    \/ c.TESTSPEEDS = <<>>

\* -------------------------------------------------------------------- C1
\* C1: the E values of successive extruding moves never decrease over the
\* whole output of main(), and no step lowers coord.currentE.
C1_ExtrusionMonotone ==
    /\ [](LET es == Extrudes(out)
          IN  \A k \in 1..(Len(es) - 1) : es[k].e <= es[k + 1].e)
    /\ [][coord'.currentE >= coord.currentE]_vars

\* A finished run whose extrusion grew from one extruding move to the next.
C1_Witness ==
    /\ pc = 0
    /\ cfg.EXTRUSIONMULT > 0
    /\ LET es == Extrudes(out)
       IN  \E k \in 1..(Len(es) - 1) : es[k].e < es[k + 1].e
    /\ coord.currentE > 0

C3_Closure ==
    (frame.active /\ frame.closed) =>
        /\ coord.currentX = frame.startx
        /\ coord.currentY = FAdd(frame.starty, frame.y)
        /\ Last(out).x = Fmt(FAdd(coord.baseX, frame.startx))
        /\ Last(out).y = Fmt(FAdd(coord.baseY, FAdd(frame.starty, frame.y)))

\* -------------------------------------------------------------------- C4
\* The line "G1 F..." that selects the speed v.
FeedLine(v) == Cmd("G1 F", Fmt(FScale(60, v)), 0, 0)
\* The feed rate in force after the lines o.
FeedInForce(o) == o[Max(Where(o, "G1 F"))]
\* The shapes of the lines of one pass of a lane at speed v: the speed, the
\* TESTTRY travel/extrude pairs and the trailing travel, then the turn.
PassShape(c, v) ==
    <<FeedLine(v)>>
    \o [k \in 1..(2 * c.TESTTRY + 1) |-> Text(IF k % 2 = 1 THEN "G1 XY" ELSE "G1 XYE")]
    \o <<FeedLine(RULERSPEED)>>
    \o [k \in 1..(c.SEMICIRCLEPOINTS + 3) |-> Text("G1 XYE")]
RECURSIVE LanesShape(_, _)
LanesShape(c, n) ==
    IF n = 0 THEN <<>>
    ELSE LanesShape(c, n - 1)
         \o <<Cmd("; Start run", n - 1, 0, 0)>>
         \o PassShape(c, c.TESTSPEEDS[n]) \o PassShape(c, c.TESTSPEEDS[n])
\* A line without the coordinates of a move.
ShapeOf(c) == IF IsMove(c) THEN Text(c.op) ELSE c
\* The lines from the first "; Start run" up to the trailing "; Start ruler".
LanePhase(o) ==
    IF Where(o, "; Start run") = {} THEN <<>>
    ELSE SubSeq(o, Min(Where(o, "; Start run")), Max(Where(o, "; Start ruler")) - 1)

\* C4: the lane phase is one forward and one return pass per entry of
\* TESTSPEEDS, in list order, and every test segment of lane i is printed
\* while the feed rate in force is TESTSPEEDS[i] * 60.
C4_LanePerSpeed ==
    /\ (Running /\ pc \in {131, 132, 133, 142, 143, 144}) =>
          FeedInForce(out) = FeedLine(cfg.TESTSPEEDS[i + 1])
    /\ pc = 0 =>
          /\ Cardinality(Where(out, "; Start run")) = NumLanes(cfg)
          /\ [k \in DOMAIN LanePhase(out) |-> ShapeOf(LanePhase(out)[k])]
                = LanesShape(cfg, NumLanes(cfg))

\* A finished run of two lanes of different speeds with test segments.
C4_Witness ==
    /\ pc = 0
    /\ NumLanes(cfg) = 2 /\ cfg.TESTSPEEDS[1] # cfg.TESTSPEEDS[2]
    /\ cfg.TESTTRY > 0
    /\ Cardinality(Where(out, "; Start run")) = 2

\* -------------------------------------------------------------------- C5
\* C5: the forward pass of lane i runs at Y = (3 + 2i) * LANEWIDTH, its
\* return pass at Y = (4 + 2i) * LANEWIDTH, and a lane starts and ends at
\* X = 2 * LANEWIDTH.
C5_LaneOffsets ==
    Running =>
        /\ pc \in 129..133 => coord.currentY = FScale(3 + 2 * i, cfg.LANEWIDTH)
        /\ pc \in 140..144 => coord.currentY = FScale(4 + 2 * i, cfg.LANEWIDTH)
        /\ pc \in {127, 128} => coord.currentX = FScale(2, cfg.LANEWIDTH)

\* -------------------------------------------------------------------- C6
\* C6 as stated: the base offset is ((BEDX - totalx)/2, (BEDY - totaly)/2)
\* from before the header on, and every printed X/Y equals base + cursor.
C6_EmittedIsBasePlusCursor ==
    /\ pc # 97 =>
          /\ coord.baseX = FHalf(FSub(cfg.BEDX, TotalX(cfg)))
          /\ coord.baseY = FHalf(FSub(cfg.BEDY, TotalY(cfg)))
    /\ (out # <<>> /\ IsMove(Last(out))) =>
          /\ Last(out).x = FAdd(coord.baseX, coord.currentX)
          /\ Last(out).y = FAdd(coord.baseY, coord.currentY)

\* C6 amended: the base offset is set once, before the header, to
\* ((BEDX - totalx)/2, (BEDY - totaly)/2) ((30, 88.5) for a 140 x 73 pattern
\* on the 200 x 250 bed) and never changes; every printed X/Y is base +
\* cursor as "%f" prints it, rounded to the printed places.
C6_BaseFixedAndPrinted ==
    /\ pc = 97 => out = <<>>
    /\ pc # 97 =>
          /\ coord.baseX = FHalf(FSub(cfg.BEDX, TotalX(cfg)))
          /\ coord.baseY = FHalf(FSub(cfg.BEDY, TotalY(cfg)))
    /\ (pc # 97 /\ cfg = CenteringConfig) =>
          /\ TotalX(cfg) = 140 * Unit /\ TotalY(cfg) = 73 * Unit
          /\ coord.baseX = 30 * Unit /\ 2 * coord.baseY = 177 * Unit
    /\ (out # <<>> /\ IsMove(Last(out))) =>
          /\ Last(out).x = Fmt(FAdd(coord.baseX, coord.currentX))
          /\ Last(out).y = Fmt(FAdd(coord.baseY, coord.currentY))

\* The 140 x 73 pattern on the 200 x 250 bed: its last move is printed and
\* the base offset is still (30, 88.5).
C6_Witness ==
    /\ cfg = CenteringConfig
    /\ pc = 162
    /\ coord.baseX = 30 * Unit /\ 2 * coord.baseY = 177 * Unit
    /\ IsMove(Last(out))
    /\ Last(out).x = Fmt(FAdd(coord.baseX, TotalX(cfg)))

\* -------------------------------------------------------------------- C7
\* What moveabs and a travel-only moverel do to the cursor.
MoveEffect ==
    /\ call.op = "moveabs" =>
          /\ coord.currentX = call.x /\ coord.currentY = call.y
          /\ coord.baseX = call.pre.baseX /\ coord.baseY = call.pre.baseY
          /\ coord.currentE = IF call.ext THEN call.e ELSE call.pre.currentE
          /\ Last(out).op = IF call.ext THEN "G1 XYE" ELSE "G1 XY"
    /\ (call.op = "moverel" /\ ~call.ext) =>
          /\ coord.currentX = FAdd(call.pre.currentX, call.x)
          /\ coord.currentY = FAdd(call.pre.currentY, call.y)
          /\ coord.currentE = call.pre.currentE
          /\ Last(out).op = "G1 XY"

\* C7 as stated: moveabs moves the cursor to (x, y) and prints a move to
\* (baseX + x, baseY + y); without e no E field is printed and currentE is
\* kept, with e the E field is exactly e and currentE becomes e; a moverel
\* without the extrude flag moves by (dx, dy) and keeps currentE.
C7_MoveabsExact ==
    /\ MoveEffect
    /\ call.op = "moveabs" =>
          /\ Last(out).x = FAdd(call.pre.baseX, call.x)
          /\ Last(out).y = FAdd(call.pre.baseY, call.y)
          /\ call.ext => Last(out).e = call.e

\* C7 amended: as stated, except that the printed fields are the values as
\* "%f" prints them: X, Y and E are baseX + x, baseY + y and e rounded to the
\* printed places, while the cursor keeps x, y and e unrounded.
C7_MoveabsPrinted ==
    /\ MoveEffect
    /\ call.op = "moveabs" =>
          /\ Last(out).x = Fmt(FAdd(call.pre.baseX, call.x))
          /\ Last(out).y = Fmt(FAdd(call.pre.baseY, call.y))
          /\ call.ext => Last(out).e = Fmt(call.e)

\* moveabs called with an e that "%f" cannot print exactly.
C7_Witness ==
    /\ call.op = "moveabs" /\ call.ext
    /\ call.e # Fmt(call.e)
    /\ call.pre.currentE # call.e
    /\ coord.currentE = call.e
    /\ Last(out).e = Fmt(call.e)

\* -------------------------------------------------------------------- C8
ZeroMove == call.op = "moverel" /\ call.x = 0 /\ call.y = 0 /\ call.ext

\* C8 as stated: moverel(coord, 0, 0, ext) prints an extruding move whose E
\* value equals the previous coord.currentE and leaves the cursor as it was.
C8_ZeroMoveExact ==
    ZeroMove =>
        /\ IsExtrude(Last(out))
        /\ Last(out).e = call.pre.currentE
        /\ coord = call.pre

\* C8 amended: the E value printed is the previous coord.currentE as "%f"
\* prints it (rounded to the printed places); the cursor is left as it was.
C8_ZeroMovePrinted ==
    ZeroMove =>
        /\ IsExtrude(Last(out))
        /\ Last(out).e = Fmt(call.pre.currentE)
        /\ coord = call.pre

\* A zero move made with a positive feed factor from a cursor that has
\* already extruded a length "%f" cannot print exactly.
C8_Witness ==
    /\ ZeroMove
    /\ cfg.EXTRUSIONMULT > 0
    /\ call.pre.currentE > 0 /\ Fmt(call.pre.currentE) # call.pre.currentE
    /\ call.pre.currentX # 0
    /\ IsExtrude(Last(out))

\* -------------------------------------------------------------------- C9
\* The move printed before line k of o (0: none).
PrevMove(o, k) == Max({0} \cup {j \in 1..(k - 1) : IsMove(o[j])})
\* Line k of o is an extruding move along Y: X as printed for the move
\* before it, Y not.
IsYStroke(o, k) ==
    /\ IsExtrude(o[k]) /\ PrevMove(o, k) > 0
    /\ o[k].x = o[PrevMove(o, k)].x /\ o[k].y # o[PrevMove(o, k)].y
IsXStroke(o, k) ==
    /\ IsExtrude(o[k]) /\ PrevMove(o, k) > 0
    /\ o[k].y = o[PrevMove(o, k)].y /\ o[k].x # o[PrevMove(o, k)].x
YStrokes(o, from, to) == {k \in from..to : IsYStroke(o, k)}

\* C9 as stated: between "; Start ruler" and the first "; Start run" there
\* are 2 * TESTTRY extruding strokes along Y.
C9_TwoStrokesPerTry ==
    (Running /\ pc = 128 /\ i = 0) =>
        Cardinality(YStrokes(out, Min(Where(out, "; Start ruler")) + 1, Len(out)))
            = 2 * cfg.TESTTRY

\* C9 amended: the leading ruler is 2 * TESTTRY + 2 extruding strokes of
\* length LANEWIDTH along Y, one at each end of the 2 * TESTTRY + 1 test
\* segments: up to the connector at line 124 the lines after "; Start ruler"
\* are 4 * TESTTRY + 4 extruding moves, a Y stroke between Y = 2 * LANEWIDTH
\* and Y = LANEWIDTH alternating with a move along X.
C9_RulerStrokes ==
    /\ (Running /\ pc = 124) =>
          LET first == Min(Where(out, "; Start ruler")) + 1
          IN  /\ Len(out) - first + 1 = 4 * cfg.TESTTRY + 4
              /\ \A k \in first..Len(out) :
                    IF (k - first) % 2 = 0 THEN IsYStroke(out, k) ELSE IsXStroke(out, k)
              /\ Cardinality(YStrokes(out, first, Len(out))) = 2 * cfg.TESTTRY + 2
    /\ (Running /\ pc \in {116, 117, 120, 121}) => coord.currentY = cfg.LANEWIDTH
    /\ (Running /\ pc \in {113, 114, 115, 118, 119, 122, 124}) =>
          coord.currentY = FScale(2, cfg.LANEWIDTH)

\* The leading ruler of a run with TESTTRY > 0, complete.
C9_Witness ==
    /\ Running /\ pc = 124
    /\ cfg.TESTTRY > 0
    /\ Cardinality(YStrokes(out, Min(Where(out, "; Start ruler")) + 1, Len(out)))
          = 2 * cfg.TESTTRY + 2

\* ------------------------------------------------------------------- C10
\* C10: from the creation of the cursor on, its position stays inside the
\* bounding box [0, totalx] x [0, totaly].
C10_InsideBoundingBox ==
    pc # 97 =>
        /\ 0 <= coord.currentX /\ coord.currentX <= TotalX(cfg)
        /\ 0 <= coord.currentY /\ coord.currentY <= TotalY(cfg)

====
